---- MODULE Spec2Model ----
(***************************************************************************)
(* Model of inspiration/basename_sorter.py: create_and_move_files scans    *)
(* one directory, groups the non-hidden files by os.path.splitext stem,    *)
(* creates a folder per stem and moves every file into its folder.         *)
(*                                                                         *)
(* A name is a sequence of characters, a path a sequence of names relative *)
(* to the target directory, and the filesystem a function from the paths   *)
(* that exist to nodes.  A file node carries the path it had in the        *)
(* initial state as its identity, so that moves, overwrites and losses can *)
(* be told apart.                                                          *)
(***************************************************************************)
EXTENDS Integers, Sequences, FiniteSets, TLC

VARIABLES fs, mode, pc, file_map, folders, i, j, attempts, fs0, run, prev, ext

vars == <<fs, mode, pc, file_map, folders, i, j, attempts, fs0, run, prev, ext>>

----------------------------------------------------------------------------
(* Bounds of the model *)

MaxTop == 3        \* entries at the top level of the initial directory
MaxNested == 2     \* entries below the top level of the initial directory
MaxRuns == 2       \* invocations of create_and_move_files
MaxExternal == 1   \* removals by another process during a run

(* mode is the state of the target directory: "rw" an ordinary directory,  *)
(* "ro" one on a filesystem that refuses every change, "missing" one that  *)
(* os.listdir cannot read.                                                 *)

(* The names the initial directory is drawn from: a name without           *)
(* extension, two names sharing a stem, a name with two extension segments *)
(* whose stem is itself one of the names, and a hidden name.               *)
Names ==
  { <<"a">>,
    <<"a", ".", "t">>,
    <<"a", ".", "c">>,
    <<"a", ".", "t", ".", "g">>,
    <<".", "h">> }

----------------------------------------------------------------------------
(* Paths and filesystem queries *)

DirNode == [kind |-> "dir", id |-> <<>>]

FileNode(p) == [kind |-> "file", id |-> p]

Basename(p) == p[Len(p)]

Parent(p) == SubSeq(p, 1, Len(p) - 1)

IsPrefix(p, q) == Len(p) <= Len(q) /\ SubSeq(q, 1, Len(p)) = p

(* Variant: the existence test always answers no. *)
exists_never(f, p) == FALSE

exists(f, p) == p \in DOMAIN f

isdir(f, p) == p \in DOMAIN f /\ f[p].kind = "dir"

listdir(f) == { p[1] : p \in { q \in DOMAIN f : Len(q) = 1 } }

(* Variant: the hidden-entry test is missing. *)
startswith_dot_never(item) == FALSE

startswith_dot(item) == item[1] = "."

(* os.path.splitext(item)[0]: cut at the last dot, unless every character  *)
(* before that dot is a dot too.                                           *)
splitext(item) ==
  LET dots == { k \in 1..Len(item) : item[k] = "." }
  IN IF dots = {} THEN item
     ELSE LET dotIndex == CHOOSE k \in dots : \A m \in dots : m <= k
          IN IF \E k \in 1..(dotIndex - 1) : item[k] # "."
             THEN SubSeq(item, 1, dotIndex - 1)
             ELSE item

----------------------------------------------------------------------------
(* Step 1: the scan *)

KeyIndex(fm, base) == { k \in 1..Len(fm) : fm[k].base = base }

(* file_map[base_name].append(item) on an insertion-ordered dict *)
MapAppend(fm, base, item) ==
  IF KeyIndex(fm, base) = {}
  THEN Append(fm, [base |-> base, files |-> <<item>>])
  ELSE LET k == CHOOSE k \in KeyIndex(fm, base) : TRUE
       IN [fm EXCEPT ![k].files = Append(@, item)]

(* the entries of the listing that reach the else branch of the loop *)
ScanFiles(f, listing) ==
  { item \in listing : ~startswith_dot(item) /\ ~isdir(f, <<item>>) }

(* the loop over those entries, in the order the listing has them *)
RECURSIVE ScanMap(_, _)
ScanMap(order, k) ==
  IF k = 0 THEN <<>>
  ELSE MapAppend(ScanMap(order, k - 1), splitext(order[k]), order[k])

ScanFolders(f, listing) ==
  { item \in listing : ~startswith_dot(item) /\ isdir(f, <<item>>) }

Orders(S) ==
  { o \in [1..Cardinality(S) -> S] : \A a, b \in DOMAIN o : a # b => o[a] # o[b] }

----------------------------------------------------------------------------
(* Filesystem mutations *)

(* Variant: the exception is caught and the loop goes on. *)
Raise_swallowed(phase) == phase

(* An exception nobody catches ends the run. *)
Raise(phase) == "aborted"

makedirs_faults(f, m, p) == m = "ro" \/ (exists(f, p) /\ ~isdir(f, p))

makedirs(f, p) == IF exists(f, p) THEN f ELSE (p :> DirNode) @@ f

(* shutil.move: an existing directory as destination takes the source      *)
(* inside it.                                                              *)
real_dst(f, src, dst) == IF isdir(f, dst) THEN Append(dst, Basename(src)) ELSE dst

move_faults(f, m, src, dst) ==
  LET rd == real_dst(f, src, dst)
  IN \/ isdir(f, dst) /\ exists(f, rd)
     \/ ~exists(f, src)
     \/ (Len(rd) > 1 /\ ~isdir(f, Parent(rd)))
     \/ isdir(f, src) /\ (IsPrefix(src, rd) \/ exists(f, rd))
     \/ m = "ro"

(* os.rename: the subtree at src is re-rooted at dst, replacing a file     *)
(* that was there.                                                         *)
rename(f, src, dst) ==
  LET moved == { p \in DOMAIN f : IsPrefix(src, p) }
      kept == (DOMAIN f \ moved) \ {dst}
      to(p) == dst \o SubSeq(p, Len(src) + 1, Len(p))
      from(q) == CHOOSE p \in moved : to(p) = q
  IN [q \in kept \cup { to(p) : p \in moved } |->
        IF q \in kept THEN f[q] ELSE f[from(q)]]

(* Variant: the file is copied and its source left in place. *)
shutil_copy(f, src, dst) == (real_dst(f, src, dst) :> f[src]) @@ f

shutil_move(f, src, dst) == rename(f, src, real_dst(f, src, dst))

(* Variant: the destination is joined to the directory, not to the folder. *)
destination_path_top(base_name, file_name) == <<file_name>>

(* Variant: the destination is built from the base name twice. *)
destination_path_base(base_name, file_name) == <<base_name, base_name>>

destination_path(base_name, file_name) == <<base_name, file_name>>

----------------------------------------------------------------------------
(* Initial states: a directory tree of at most MaxTop top-level and        *)
(* MaxNested deeper entries, or a directory that cannot be listed.         *)

RECURSIVE SubsetsUpTo(_, _)
SubsetsUpTo(S, n) ==
  IF n = 0 THEN { {} }
  ELSE LET smaller == SubsetsUpTo(S, n - 1)
       IN smaller \cup { s \cup {x} : s \in smaller, x \in S }

(* Below the top level the names are those a move can bring into a folder: *)
(* the names with an extension.  A third level is there for the one case   *)
(* shutil.move looks that deep, folder/name/name.                          *)
NestedNames == { n \in Names : splitext(n) # n }

NestedPaths(dirs) ==
  { <<a, b>> : a \in dirs, b \in NestedNames } \cup
  { <<a, b, b>> : a \in dirs, b \in NestedNames }

TreeClosed(kinds) ==
  \A p \in DOMAIN kinds :
     /\ Len(p) > 1 => (Parent(p) \in DOMAIN kinds /\ kinds[Parent(p)] = "dir")
     /\ Len(p) > 2 => kinds[p] = "file"

NodesOf(kinds) ==
  [p \in DOMAIN kinds |-> IF kinds[p] = "dir" THEN DirNode ELSE FileNode(p)]

Init ==
  /\ mode \in {"rw", "ro", "missing"}
  /\ \E top \in SubsetsUpTo(Names, MaxTop) :
     \E topKinds \in [ { <<n>> : n \in top } -> {"file", "dir"} ] :
     \E nested \in SubsetsUpTo(NestedPaths({ n \in top : topKinds[<<n>>] = "dir" }), MaxNested) :
     \E nestedKinds \in [ nested -> {"file", "dir"} ] :
        LET kinds == topKinds @@ nestedKinds
        IN /\ TreeClosed(kinds)
           /\ mode = "missing" => DOMAIN kinds = {}
           /\ fs = NodesOf(kinds)
  /\ fs0 = fs
  /\ pc = "scan"
  /\ file_map = <<>>
  /\ folders = {}
  /\ i = 1
  /\ j = 1
  /\ attempts = <<>>
  /\ run = 1
  /\ prev = "none"
  /\ ext = 0

----------------------------------------------------------------------------
(* Actions *)

(* os.listdir raises: the directory is missing or unreadable *)
ScanFault ==
  /\ pc = "scan"
  /\ mode = "missing"
  /\ pc' = Raise("scan")
  /\ UNCHANGED <<fs, mode, file_map, folders, i, j, attempts, fs0, run, prev, ext>>

(* Step 1, in whatever order os.listdir returns the entries; only the      *)
(* relative order of the entries that are grouped shows in file_map.       *)
Scan ==
  /\ pc = "scan"
  /\ mode # "missing"
  /\ \E order \in Orders(ScanFiles(fs, listdir(fs))) :
        file_map' = ScanMap(order, Len(order))
  /\ folders' = ScanFolders(fs, listdir(fs))
  /\ pc' = "mkdirs"
  /\ i' = 1
  /\ j' = 1
  /\ UNCHANGED <<fs, mode, attempts, fs0, run, prev, ext>>

(* Step 2, one iteration: the folder is there already *)
EnsureSkip ==
  /\ pc = "mkdirs"
  /\ i <= Len(file_map)
  /\ exists(fs, <<file_map[i].base>>)
  /\ i' = i + 1
  /\ UNCHANGED <<fs, mode, pc, file_map, folders, j, attempts, fs0, run, prev, ext>>

(* Step 2, one iteration: os.makedirs creates the folder *)
EnsureCreate ==
  /\ pc = "mkdirs"
  /\ i <= Len(file_map)
  /\ LET p == <<file_map[i].base>>
     IN /\ ~exists(fs, p)
        /\ ~makedirs_faults(fs, mode, p)
        /\ fs' = makedirs(fs, p)
        /\ attempts' = Append(attempts, [op |-> "mkdir", src |-> p, dst |-> p, at |-> p, ok |-> TRUE])
  /\ i' = i + 1
  /\ UNCHANGED <<mode, pc, file_map, folders, j, fs0, run, prev, ext>>

(* Step 2, one iteration: os.makedirs raises *)
EnsureFault ==
  /\ pc = "mkdirs"
  /\ i <= Len(file_map)
  /\ LET p == <<file_map[i].base>>
     IN /\ ~exists(fs, p)
        /\ makedirs_faults(fs, mode, p)
        /\ attempts' = Append(attempts, [op |-> "mkdir", src |-> p, dst |-> p, at |-> p, ok |-> FALSE])
  /\ pc' = Raise("mkdirs")
  /\ i' = i + 1
  /\ UNCHANGED <<fs, mode, file_map, folders, j, fs0, run, prev, ext>>

(* Step 2 has gone through every key *)
EnsureDone ==
  /\ pc = "mkdirs"
  /\ i > Len(file_map)
  /\ pc' = "move"
  /\ i' = 1
  /\ j' = 1
  /\ UNCHANGED <<fs, mode, file_map, folders, attempts, fs0, run, prev, ext>>

CurSrc == <<file_map[i].files[j]>>

CurDst == destination_path(file_map[i].base, file_map[i].files[j])

Advance ==
  IF j < Len(file_map[i].files)
  THEN i' = i /\ j' = j + 1
  ELSE i' = i + 1 /\ j' = 1

(* Step 3, one iteration: shutil.move succeeds *)
MoveOk ==
  /\ pc = "move"
  /\ i <= Len(file_map)
  /\ ~move_faults(fs, mode, CurSrc, CurDst)
  /\ fs' = shutil_move(fs, CurSrc, CurDst)
  /\ attempts' = Append(attempts, [op |-> "move", src |-> CurSrc, dst |-> CurDst,
                                   at |-> real_dst(fs, CurSrc, CurDst), ok |-> TRUE])
  /\ Advance
  /\ UNCHANGED <<mode, pc, file_map, folders, fs0, run, prev, ext>>

(* Step 3, one iteration: shutil.move raises *)
MoveFault ==
  /\ pc = "move"
  /\ i <= Len(file_map)
  /\ move_faults(fs, mode, CurSrc, CurDst)
  /\ attempts' = Append(attempts, [op |-> "move", src |-> CurSrc, dst |-> CurDst,
                                   at |-> real_dst(fs, CurSrc, CurDst), ok |-> FALSE])
  /\ pc' = Raise("move")
  /\ Advance
  /\ UNCHANGED <<fs, mode, file_map, folders, fs0, run, prev, ext>>

(* Step 3 has gone through every group: the function returns *)
RelocateDone ==
  /\ pc = "move"
  /\ i > Len(file_map)
  /\ pc' = "done"
  /\ UNCHANGED <<fs, mode, file_map, folders, i, j, attempts, fs0, run, prev, ext>>

(* The function is called again on the directory the last run left *)
Rerun ==
  /\ pc \in {"done", "aborted"}
  /\ run < MaxRuns
  /\ run' = run + 1
  /\ fs0' = fs
  /\ pc' = "scan"
  /\ file_map' = <<>>
  /\ folders' = {}
  /\ i' = 1
  /\ j' = 1
  /\ attempts' = <<>>
  /\ prev' = pc
  /\ UNCHANGED <<fs, mode, ext>>

(* Another process removes (deletes or renames away) a scanned file        *)
(* between the scan and its move.                                          *)
ExternalRemove ==
  /\ pc \in {"mkdirs", "move"}
  /\ ext < MaxExternal
  /\ \E k \in 1..Len(file_map) : \E m \in 1..Len(file_map[k].files) :
        LET p == <<file_map[k].files[m]>>
        IN /\ exists(fs, p)
           /\ ~isdir(fs, p)
           /\ fs' = [q \in DOMAIN fs \ {p} |-> fs[q]]
  /\ ext' = ext + 1
  /\ UNCHANGED <<mode, pc, file_map, folders, i, j, attempts, fs0, run, prev>>

Next ==
  \/ ScanFault
  \/ Scan
  \/ EnsureSkip
  \/ EnsureCreate
  \/ EnsureFault
  \/ EnsureDone
  \/ MoveOk
  \/ MoveFault
  \/ RelocateDone
  \/ Rerun

Spec == Init /\ [][Next]_vars

NextExt == Next \/ ExternalRemove

SpecExt == Init /\ [][NextExt]_vars

----------------------------------------------------------------------------
(* Vocabulary of the properties *)

Has(f, p) == p \in DOMAIN f

IsFolder(f, p) == p \in DOMAIN f /\ f[p].kind = "dir"

TopNames(f) == { p[1] : p \in { q \in DOMAIN f : Len(q) = 1 } }

(* the non-hidden regular files at the top level of f *)
TopFiles(f) == { n \in TopNames(f) : n[1] # "." /\ ~IsFolder(f, <<n>>) }

(* the non-hidden folders at the top level of f *)
TopFolders(f) == { n \in TopNames(f) : n[1] # "." /\ IsFolder(f, <<n>>) }

Keys == { file_map[k].base : k \in 1..Len(file_map) }

GroupOf(base) == (CHOOSE k \in 1..Len(file_map) : file_map[k].base = base)

GroupFiles(base) ==
  LET g == file_map[GroupOf(base)].files IN { g[m] : m \in 1..Len(g) }

RECURSIVE PlannedFrom(_)
PlannedFrom(k) ==
  IF k > Len(file_map) THEN <<>>
  ELSE [m \in 1..Len(file_map[k].files) |->
          [src |-> <<file_map[k].files[m]>>,
           dst |-> <<file_map[k].base, file_map[k].files[m]>>]]
       \o PlannedFrom(k + 1)

(* every move of the grouping, groups in key order, files in recorded order *)
Planned == PlannedFrom(1)

IsMove(a) == a.op = "move"

MoveAttempts == SelectSeq(attempts, IsMove)

FilePaths(f) == { p \in DOMAIN f : f[p].kind = "file" }

Under(f, n) == { p \in DOMAIN f : p[1] = n }

SameUnder(n) ==
  /\ Under(fs, n) = Under(fs0, n)
  /\ \A p \in Under(fs0, n) : fs[p] = fs0[p]

RunOver == pc \in {"done", "aborted"}

----------------------------------------------------------------------------
(* C1: when create_and_move_files has completed, every non-hidden regular  *)
(* file f that was at the top level is at stem/f, stem being f without its *)
(* final extension segment, and stem is a directory.                       *)
C1_FilesAtStemSlashName ==
  pc = "done" =>
    \A f \in TopFiles(fs0) :
      LET S == splitext(f)
      IN /\ IsFolder(fs, <<S>>)
         /\ Has(fs, <<S, f>>)
         /\ fs[<<S, f>>] = fs0[<<f>>]

(* C2: a top-level file N without extension, the only file of stem N, ends *)
(* up as the one entry of a folder named N once the run on a writable      *)
(* directory is over.                                                      *)
C2_NoExtensionFolder ==
  (RunOver /\ mode = "rw") =>
    \A N \in TopFiles(fs0) :
      (splitext(N) = N /\ \A g \in TopFiles(fs0) : splitext(g) = N => g = N) =>
         /\ IsFolder(fs, <<N>>)
         /\ { p \in Under(fs, N) : Len(p) > 1 } = { <<N, N>> }
         /\ fs[<<N, N>>] = fs0[<<N>>]

(* C3: a top-level entry whose name starts with a dot stays as it is: it   *)
(* is in neither folders nor file_map, no move takes it as source, no      *)
(* folder is created with such a name, and nothing at or below it changes. *)
C3_HiddenUntouched ==
  /\ \A n \in folders : n[1] # "."
  /\ \A b \in Keys : b[1] # "." /\ \A f \in GroupFiles(b) : f[1] # "."
  /\ \A k \in 1..Len(attempts) :
        attempts[k].src[1][1] # "." /\ attempts[k].at[1][1] # "."
  /\ \A h \in TopNames(fs0) \cup TopNames(fs) : h[1] = "." => SameUnder(h)

C3_Witness ==
  /\ pc = "done"
  /\ \E k \in 1..Len(attempts) : attempts[k].op = "mkdir"
  /\ \E k \in 1..Len(attempts) : attempts[k].op = "move" /\ attempts[k].ok
  /\ \E h \in TopNames(fs0) : h[1] = "." /\ ~IsFolder(fs0, <<h>>)

(* C4: a run that follows a completed run creates no folder, moves no file *)
(* and leaves the tree as it found it.                                     *)
C4_SecondRunNoOp ==
  prev = "done" =>
    /\ attempts = <<>>
    /\ file_map = <<>>
    /\ fs = fs0
    /\ pc # "aborted"

C4_Witness ==
  /\ prev = "done"
  /\ pc = "done"
  /\ \E p \in FilePaths(fs) : fs[p].id # p /\ Len(fs[p].id) = 1

C6_TopLevelCleared ==
  pc = "done" =>
    /\ TopFiles(fs) = {}
    /\ \A d \in TopFolders(fs0) : d \notin Keys => SameUnder(d)

C6_Witness ==
  /\ pc = "done"
  /\ TopFiles(fs0) # {}
  /\ \E d \in TopFolders(fs0) : d \notin Keys /\ Cardinality(Under(fs0, d)) >= 2

(* C7: once the folder-creation phase is over (nothing interfering, the    *)
(* directory writable), the folder of every group still to be moved is a   *)
(* directory, so the folder of the file about to be moved is one.          *)
C7_FolderBeforeMove ==
  (pc = "move" /\ mode = "rw") =>
    \A k \in i..Len(file_map) : IsFolder(fs, <<file_map[k].base>>)

(* C8: when the run is over and relocation has started, the moves          *)
(* attempted are all the moves of the grouping, in recorded order, whatever*)
(* the outcome of the earlier ones.                                        *)
C8_EveryMoveAttempted ==
  (RunOver /\ MoveAttempts # <<>>) =>
    /\ Len(MoveAttempts) = Len(Planned)
    /\ \A k \in 1..Len(Planned) :
          MoveAttempts[k].src = Planned[k].src /\ MoveAttempts[k].dst = Planned[k].dst

(* C8 as amended: the moves attempted are an initial part of the moves of  *)
(* the grouping in recorded order; only the last one attempted can have    *)
(* failed, and then the run is aborted; a completed run has attempted      *)
(* every one of them, with success.                                        *)
C8_MovesUntilFirstFailure ==
  /\ Len(MoveAttempts) <= Len(Planned)
  /\ \A k \in 1..Len(MoveAttempts) :
        /\ MoveAttempts[k].src = Planned[k].src
        /\ MoveAttempts[k].dst = Planned[k].dst
        /\ ~MoveAttempts[k].ok => (k = Len(MoveAttempts) /\ pc = "aborted")
  /\ pc = "done" => Len(MoveAttempts) = Len(Planned)

C8_Witness ==
  /\ pc = "aborted"
  /\ MoveAttempts # <<>>
  /\ ~MoveAttempts[Len(MoveAttempts)].ok
  /\ Len(MoveAttempts) < Len(Planned)

(* C9: a failed operation is the last operation of its run and leaves the  *)
(* run aborted (a listing that fails aborts before any operation); the     *)
(* step that aborts takes back nothing of what the operations before it   *)
(* put in place and attempts one operation at most, and an aborted run     *)
(* attempts nothing more and changes nothing.                              *)
C9_State ==
  /\ \A k \in 1..Len(attempts) :
        ~attempts[k].ok => (k = Len(attempts) /\ pc = "aborted")
  /\ (mode = "missing" /\ pc # "scan") => (pc = "aborted" /\ attempts = <<>>)

C9_Step ==
  /\ (pc # "aborted" /\ pc' = "aborted") =>
        /\ Len(attempts') <= Len(attempts) + 1
        /\ \A k \in 1..Len(attempts) :
              Has(fs, attempts[k].at) =>
                 (Has(fs', attempts[k].at) /\ fs'[attempts[k].at] = fs[attempts[k].at])
  /\ (pc = "aborted" /\ run' = run) =>
        (pc' = "aborted" /\ attempts' = attempts /\ fs' = fs)

C9_AbortAtFirstFault == [](C9_State) /\ [][C9_Step]_vars

C9_Witness ==
  /\ pc = "aborted"
  /\ ext = 1
  /\ Len(attempts) >= 3
  /\ attempts[1].op = "mkdir"
  /\ attempts[Len(attempts)].op = "move"
  /\ ~Has(fs, attempts[Len(attempts)].src)
  /\ Len(MoveAttempts) < Len(Planned)

(* C10: no two moves of a run have the same source or the same             *)
(* destination, a file moved in the run is not replaced by a later move of *)
(* the run, and a completed run none of whose destinations existed leaves  *)
(* every file of the tree at exactly one path.                             *)
C10_MovesInjective ==
  /\ \A k, m \in 1..Len(MoveAttempts) :
        k # m =>
          /\ MoveAttempts[k].src # MoveAttempts[m].src
          /\ MoveAttempts[k].dst # MoveAttempts[m].dst
          /\ MoveAttempts[k].at # MoveAttempts[m].at
  /\ \A k \in 1..Len(MoveAttempts) :
        MoveAttempts[k].ok =>
          /\ Has(fs, MoveAttempts[k].at)
          /\ fs[MoveAttempts[k].at] = fs0[MoveAttempts[k].src]
  /\ (pc = "done" /\ \A k \in 1..Len(Planned) : ~Has(fs0, Planned[k].dst)) =>
        /\ { fs[p].id : p \in FilePaths(fs) } = { fs0[p].id : p \in FilePaths(fs0) }
        /\ Cardinality(FilePaths(fs)) = Cardinality(FilePaths(fs0))

C10_Witness ==
  /\ pc = "done"
  /\ Len(MoveAttempts) >= 2
  /\ \E k, m \in 1..Len(MoveAttempts) :
        k # m /\ MoveAttempts[k].dst[1] = MoveAttempts[m].dst[1]
  /\ \A k \in 1..Len(Planned) : ~Has(fs0, Planned[k].dst)

====
